---- MODULE Spec2Model ----
(***************************************************************************)
(* era5-air-density-calc.py: compute_air_density (lines 19-46) and the     *)
(* year loop that retrieves ERA5 blocks, adds the density column and       *)
(* writes the combined CSV (lines 66-129).                                 *)
(*                                                                         *)
(* Numbers.  A float is modelled by the real number it approximates,       *)
(* extended with the IEEE-754 values +inf, -inf and NaN that numpy yields  *)
(* for a division by zero.  A finite value is kept exactly, in the form    *)
(*        a + b * exp(c)        a, b, c rational                           *)
(* (np.exp of a non-zero rational is transcendental, so the form is unique  *)
(* for c # 0; exp(0) is kept as the term 1*exp(0)).  A rational is         *)
(* n/d * 10^e in lowest terms with d coprime to 10 and n not a multiple of *)
(* 10, so that equal rationals are equal records.                          *)
(* Rounding to 53 bits is not modelled.                                    *)
(***************************************************************************)
EXTENDS Integers, Sequences, FiniteSets, TLC

(* -------------------------------- state -------------------------------- *)

VARIABLES
    heap,           \* the array objects alive during the call
    caller,         \* the caller's names for its arguments: [t, p, h]
    temp_col,       \* compute_air_density's locals (references, 0 = unbound)
    pres_col,
    humi_col,
    rel_humidity,
    rho,
    pc,             \* the line of compute_air_density about to run
    outcome,        \* how the call ended
    trace,          \* the lines run so far, in order
    memo,           \* an earlier call remembered by the caller: inputs and result
    yr,             \* year loop: index of the block being processed
    lpc,            \* year loop: the statement about to run
    files,          \* the .nc files on disk, one per retrieved block
    dataset,        \* per opened block: "open" or "closed"
    df,             \* the current block's DataFrame
    result_df,      \* the accumulated DataFrame
    csv             \* the tables written by to_csv, in order

(* ------------------------------ rationals ------------------------------ *)

Abs(n) == IF n < 0 THEN -n ELSE n

Sgn(n) == IF n < 0 THEN -1 ELSE IF n = 0 THEN 0 ELSE 1

RECURSIVE Gcd(_, _)
Gcd(a, b) == IF b = 0 THEN a ELSE Gcd(b, a % b)

RECURSIVE Pow10(_)
Pow10(k) == IF k = 0 THEN 1 ELSE 10 * Pow10(k - 1)

\* n/d * 10^e with n, d coprime: the factors 2 and 5 of d go to the exponent.
RECURSIVE Clear25(_, _, _)
Clear25(n, d, e) ==
    IF d % 10 = 0 THEN Clear25(n, d \div 10, e - 1)
    ELSE IF d % 2 = 0 THEN Clear25(n * 5, d \div 2, e - 1)
    ELSE IF d % 5 = 0 THEN Clear25(n * 2, d \div 5, e - 1)
    ELSE [n |-> n, d |-> d, e |-> e]

\* The multiples of 10 of n go to the exponent.
RECURSIVE Strip10(_)
Strip10(r) ==
    IF r.n # 0 /\ r.n % 10 = 0
    THEN Strip10([n |-> r.n \div 10, d |-> r.d, e |-> r.e + 1])
    ELSE r

\* The canonical record of n/d * 10^e (d > 0).
Norm(n, d, e) ==
    IF n = 0 THEN [n |-> 0, d |-> 1, e |-> 0]
    ELSE LET g == Gcd(Abs(n), d)
         IN  Strip10(Clear25(n \div g, d \div g, e))

Q(n, d) == Norm(n, d, 0)

RZero == Q(0, 1)

ROne == Q(1, 1)

RMul(x, y) ==
    IF x.n = 0 \/ y.n = 0 THEN RZero
    ELSE LET g1 == Gcd(Abs(x.n), y.d)
             g2 == Gcd(Abs(y.n), x.d)
         IN  Norm((x.n \div g1) * (y.n \div g2),
                  (x.d \div g2) * (y.d \div g1), x.e + y.e)

\* 1/x, x # 0
RInv(x) == Norm(Sgn(x.n) * x.d, Abs(x.n), -x.e)

RNeg(x) == [x EXCEPT !.n = -x.n]

RSub(x, y) ==
    IF y.n = 0 THEN x
    ELSE IF x.n = 0 THEN RNeg(y)
    ELSE LET e  == IF x.e < y.e THEN x.e ELSE y.e
             g  == Gcd(x.d, y.d)
             nx == x.n * Pow10(x.e - e) * (y.d \div g)
             ny == y.n * Pow10(y.e - e) * (x.d \div g)
         IN  Norm(nx - ny, (x.d \div g) * y.d, e)

RECURSIVE Digits(_)
Digits(n) == IF n < 10 THEN 1 ELSE 1 + Digits(n \div 10)

\* 10^MagLo(x) <= |x| < 10^MagHi(x), x # 0
MagLo(x) == Digits(Abs(x.n)) - Digits(x.d) - 1 + x.e

MagHi(x) == Digits(Abs(x.n)) - Digits(x.d) + 1 + x.e

\* |x| < |y|, x # 0 and y # 0: by magnitude when that decides, else exactly
RLessAbs(x, y) ==
    IF MagLo(y) >= MagHi(x) THEN TRUE
    ELSE IF MagLo(x) >= MagHi(y) THEN FALSE
    ELSE LET e == IF x.e < y.e THEN x.e ELSE y.e
         IN  Abs(x.n) * Pow10(x.e - e) * y.d < Abs(y.n) * Pow10(y.e - e) * x.d

(* ------------------- floats: a + b*exp(c), inf, nan -------------------- *)

Fin(a, b, c) ==
    [k |-> "fin", a |-> a, b |-> b, c |-> IF b.n = 0 THEN RZero ELSE c]

Num(r) == Fin(r, RZero, RZero)

Inf == [k |-> "inf", a |-> RZero, b |-> RZero, c |-> RZero]

NInf == [k |-> "ninf", a |-> RZero, b |-> RZero, c |-> RZero]

NaN == [k |-> "nan", a |-> RZero, b |-> RZero, c |-> RZero]

BySign(s) == IF s > 0 THEN Inf ELSE IF s < 0 THEN NInf ELSE NaN

\* The sign of a value.  exp(c) > 0, so a term with a = 0 or b = 0, or with
\* a and b of one sign, has that sign; a + b*exp(0) has the sign of a + b.
\* No other term meets an infinity or a comparison in the program.
FSign(x) ==
    CASE x.k = "inf" -> 1
      [] x.k = "ninf" -> -1
      [] x.k = "fin" /\ x.b.n = 0 -> Sgn(x.a.n)
      [] x.k = "fin" /\ x.b.n # 0 /\ x.a.n = 0 -> Sgn(x.b.n)
      [] x.k = "fin" /\ x.b.n # 0 /\ x.a.n # 0 /\ Sgn(x.a.n) = Sgn(x.b.n) ->
            Sgn(x.a.n)
      [] x.k = "fin" /\ x.b.n # 0 /\ x.a.n # 0 /\ Sgn(x.a.n) # Sgn(x.b.n)
            /\ x.c.n = 0 ->
            IF RLessAbs(x.b, x.a) THEN Sgn(x.a.n)
            ELSE IF RLessAbs(x.a, x.b) THEN Sgn(x.b.n)
            ELSE 0

\* x < 0 as numpy compares floats (NaN < 0 is False)
FLt0(x) == x.k # "nan" /\ FSign(x) < 0

Scale(v, r) == Fin(RMul(v.a, r), RMul(v.b, r), v.c)

\* x * y.  Two exp terms are never multiplied by the program.
FMul(x, y) ==
    CASE x.k = "nan" \/ y.k = "nan" -> NaN
      [] x.k # "nan" /\ y.k # "nan" /\ (x.k # "fin" \/ y.k # "fin") ->
            BySign(FSign(x) * FSign(y))
      [] x.k = "fin" /\ y.k = "fin" /\ x.b.n = 0 -> Scale(y, x.a)
      [] x.k = "fin" /\ y.k = "fin" /\ x.b.n # 0 /\ y.b.n = 0 -> Scale(x, y.a)

\* x / y, y free of exp.  A zero divisor gives +-inf, or NaN for 0/0.
FDiv(x, y) ==
    CASE x.k = "nan" \/ y.k = "nan" -> NaN
      [] x.k # "nan" /\ y.k \in {"inf", "ninf"} ->
            IF x.k = "fin" THEN Num(RZero) ELSE NaN
      [] x.k # "nan" /\ y.k = "fin" /\ y.b.n = 0 /\ y.a.n = 0 ->
            BySign(FSign(x))
      [] x.k # "fin" /\ x.k # "nan" /\ y.k = "fin" /\ y.b.n = 0 /\ y.a.n # 0 ->
            BySign(FSign(x) * Sgn(y.a.n))
      [] x.k = "fin" /\ y.k = "fin" /\ y.b.n = 0 /\ y.a.n # 0 ->
            Scale(x, RInv(y.a))

\* x - y.  Two different exp terms are never subtracted by the program.
FSub(x, y) ==
    CASE x.k = "nan" \/ y.k = "nan" -> NaN
      [] x.k # "nan" /\ y.k # "nan" /\ x.k # "fin" ->
            IF x.k = y.k THEN NaN ELSE x
      [] x.k = "fin" /\ y.k \in {"inf", "ninf"} ->
            IF y.k = "inf" THEN NInf ELSE Inf
      [] x.k = "fin" /\ y.k = "fin" /\ y.b.n = 0 ->
            Fin(RSub(x.a, y.a), x.b, x.c)
      [] x.k = "fin" /\ y.k = "fin" /\ y.b.n # 0 /\ x.b.n = 0 ->
            Fin(RSub(x.a, y.a), RNeg(y.b), y.c)
      [] x.k = "fin" /\ y.k = "fin" /\ y.b.n # 0 /\ x.b.n # 0 /\ x.c = y.c ->
            Fin(RSub(x.a, y.a), RSub(x.b, y.b), x.c)

\* np.exp(x), x free of exp
FExp(x) ==
    CASE x.k = "nan" -> NaN
      [] x.k = "inf" -> Inf
      [] x.k = "ninf" -> Num(RZero)
      [] x.k = "fin" /\ x.b.n = 0 -> Fin(RZero, ROne, x.a)

(* ------------------------------- arrays -------------------------------- *)

\* A one-dimensional numpy array / pandas column: its dtype and its values.
Array(dt, xs) == [dtype |-> dt, data |-> xs]

\* What an expression yields when its operands cannot be broadcast together
\* (numpy raises ValueError).
ValueErr == Array("ValueError", <<>>)

\* humi_col=None
None == Array("None", <<>>)

shape0(x) == Len(x.data)

np_repeat(v, n) == Array("float64", [i \in 1..n |-> v])

\* Shapes (n,) and (m,) broadcast when equal or when one of them is 1.
Broadcastable(n, m) == n = m \/ n = 1 \/ m = 1

BLen(n, m) == IF n = 1 THEN m ELSE n

At(x, i) == x.data[IF shape0(x) = 1 THEN 1 ELSE i]

\* one arithmetic operator of the expression on two floats
Apply(op, a, b) ==
    CASE op = "*" -> FMul(a, b)
      [] op = "/" -> FDiv(a, b)
      [] op = "-" -> FSub(a, b)

\* x op y, element by element
Elementwise(op, x, y) ==
    IF x = ValueErr \/ y = ValueErr \/ ~Broadcastable(shape0(x), shape0(y))
    THEN ValueErr
    ELSE Array("float64",
               [i \in 1..BLen(shape0(x), shape0(y)) |-> Apply(op, At(x, i), At(y, i))])

\* scalar op array, array op scalar
ScalarLeft(op, s, x) ==
    IF x = ValueErr THEN ValueErr
    ELSE Array("float64", [i \in 1..shape0(x) |-> Apply(op, s, x.data[i])])

ScalarRight(op, x, s) ==
    IF x = ValueErr THEN ValueErr
    ELSE Array("float64", [i \in 1..shape0(x) |-> Apply(op, x.data[i], s)])

np_exp(x) ==
    IF x = ValueErr THEN ValueErr
    ELSE Array("float64", [i \in 1..shape0(x) |-> FExp(x.data[i])])

\* np.any(x <= 0)
any_nonpositive(x) ==
    \E i \in 1..shape0(x) : x.data[i].k # "nan" /\ FSign(x.data[i]) <= 0

\* np.any(x < 0)
any_negative(x) == \E i \in 1..shape0(x) : FLt0(x.data[i])

\* x.astype(float): a float64 array of the same values
astype_float(x) == Array("float64", x.data)

(* ------------------------- compute_air_density ------------------------- *)

\* R_const rounded to an integer
R_const_rounded == Num(Q(287, 1))

R_const == Num(Q(28705, 100))

Rw_const == Num(Q(4615, 10))

SvpScale == Num(Q(205, 10000000))

SvpRate == Num(Q(631846, 10000000))

DefaultHumidityValue == Num(Q(5, 10))

\* a default of dry air
DefaultHumidity_zero(temp) == np_repeat(Num(RZero), shape0(temp))

\* the default array kept from the previous call and reused
DefaultHumidity_cached(temp) ==
    IF rel_humidity # 0 /\ rel_humidity <= Len(heap)
    THEN heap[rel_humidity]
    ELSE np_repeat(DefaultHumidityValue, shape0(temp))

\* line 33, the default: np.repeat(0.5, temp_col.shape[0])
DefaultHumidity(temp) == np_repeat(DefaultHumidityValue, shape0(temp))

\* the humidity left out of the check
HasNegative_no_humidity(temp, pres, rel) ==
    any_negative(temp) \/ any_negative(pres)

\* line 36, the condition of the raise
HasNegative(temp, pres, rel) ==
    any_negative(temp) \/ any_negative(pres) \/ any_negative(rel)

\* the right-hand side with its samples in reverse order
rho_expr_reversed(temp, pres, rel) ==
    LET one == Num(ROne)
        svp == ScalarLeft("*", SvpScale, np_exp(ScalarLeft("*", SvpRate, temp)))
        gas == FSub(FDiv(one, R_const), FDiv(one, Rw_const))
        wet == ScalarRight("*", Elementwise("*", rel, svp), gas)
        dry == ScalarRight("/", pres, R_const)
        r   == Elementwise("*", ScalarLeft("/", one, temp),
                           Elementwise("-", dry, wet))
    IN  IF r = ValueErr THEN r
        ELSE Array(r.dtype, [i \in 1..shape0(r) |-> r.data[shape0(r) + 1 - i]])

\* line 44, the right-hand side
rho_expr(temp, pres, rel) ==
    LET one == Num(ROne)
        svp == ScalarLeft("*", SvpScale, np_exp(ScalarLeft("*", SvpRate, temp)))
        gas == FSub(FDiv(one, R_const), FDiv(one, Rw_const))
        wet == ScalarRight("*", Elementwise("*", rel, svp), gas)
        dry == ScalarRight("/", pres, R_const)
    IN  Elementwise("*", ScalarLeft("/", one, temp), Elementwise("-", dry, wet))

(* The call frame: the heap of array objects, the local names (references *)
(* into the heap, 0 when unbound or None), the line about to run and the  *)
(* outcome of the call.                                                   *)

NoOutcome == [status |-> "none", value |-> 0]

\* Entry of compute_air_density(temp_col, pres_col, humi_col) on heap h.
CallFrame(h, t, p, hm) ==
    [heap |-> h, temp_col |-> t, pres_col |-> p, humi_col |-> hm,
     rel_humidity |-> 0, rho |-> 0, pc |-> "L33", outcome |-> NoOutcome]

\* A new object holding x; its reference is Len of the new heap.
Alloc(h, x) == Append(h, x)

\* astype(float, copy=False) semantics on the caller's object: converted in place
astype_inplace(h, ref) ==
    [heap |-> [h EXCEPT ![ref] = astype_float(h[ref])], ref |-> ref]

\* The object a name is bound to after `name = name.astype(float)`.
astype(h, ref) == [heap |-> Alloc(h, astype_float(h[ref])), ref |-> Len(h) + 1]

line33(f) ==
    IF f.humi_col # 0
    THEN [f EXCEPT !.rel_humidity = f.humi_col, !.pc = "L36"]
    ELSE [f EXCEPT !.heap = Alloc(f.heap, DefaultHumidity(f.heap[f.temp_col])),
                   !.rel_humidity = Len(f.heap) + 1,
                   !.pc = "L36"]

\* the message printed instead of raised
line36_warn(f) == [f EXCEPT !.pc = "L40"]

line36(f) ==
    IF HasNegative(f.heap[f.temp_col], f.heap[f.pres_col], f.heap[f.rel_humidity])
    THEN [f EXCEPT !.pc = "raised",
                   !.outcome = [status |-> "Exception", value |-> 0]]
    ELSE [f EXCEPT !.pc = "L40"]

line40(f) ==
    LET t == astype(f.heap, f.temp_col)
        p == astype(t.heap, f.pres_col)
    IN  [f EXCEPT !.heap = p.heap, !.temp_col = t.ref, !.pres_col = p.ref,
                  !.pc = "L44"]

line44(f) ==
    LET r == rho_expr(f.heap[f.temp_col], f.heap[f.pres_col],
                      f.heap[f.rel_humidity])
    IN  IF r = ValueErr
        THEN [f EXCEPT !.pc = "raised",
                       !.outcome = [status |-> "ValueError", value |-> 0]]
        ELSE [f EXCEPT !.heap = Alloc(f.heap, r), !.rho = Len(f.heap) + 1,
                       !.pc = "L46"]

line46(f) ==
    [f EXCEPT !.pc = "returned",
              !.outcome = [status |-> "ok", value |-> f.rho]]

Exec(f) ==
    CASE f.pc = "L33" -> line33(f)
      [] f.pc = "L36" -> line36(f)
      [] f.pc = "L40" -> line40(f)
      [] f.pc = "L44" -> line44(f)
      [] f.pc = "L46" -> line46(f)
      [] OTHER -> f

\* The frame when the call has returned or raised.
RECURSIVE Run(_)
Run(f) == IF f.pc \in {"returned", "raised"} THEN f ELSE Run(Exec(f))

\* What a call gives its caller: the returned array, or the error raised.
Result(f) ==
    [status |-> f.outcome.status,
     value |-> IF f.outcome.status = "ok" THEN f.heap[f.outcome.value] ELSE None]

\* compute_air_density on arrays t, p and h (h = None when omitted)
compute_air_density(t, p, h) ==
    Result(Run(IF h = None THEN CallFrame(<<t, p>>, 1, 2, 0)
                           ELSE CallFrame(<<t, p, h>>, 1, 2, 3)))

fvars == <<heap, caller, temp_col, pres_col, humi_col, rel_humidity, rho, pc,
           outcome, trace>>

lvars == <<yr, lpc, files, dataset, df, result_df, csv>>

vars == <<fvars, memo, lvars>>

(* ------------------------------- inputs -------------------------------- *)

MaxLen == 2

SeqsUpTo(S, n) == UNION {[1..k -> S] : k \in 0..n}

TempVals == {Num(Q(-1, 1)), Num(Q(0, 1)), Num(Q(2, 1))}

PresVals == {Num(Q(-1, 1)), Num(Q(0, 1)), Num(Q(3, 1))}

HumVals == {Num(Q(-1, 2)), Num(Q(0, 1)), Num(Q(1, 2)), Num(Q(3, 2))}

Dtypes == {"int64", "float64"}

TempArrays == {Array(dt, xs) : dt \in Dtypes, xs \in SeqsUpTo(TempVals, MaxLen)}

PresArrays == {Array(dt, xs) : dt \in Dtypes, xs \in SeqsUpTo(PresVals, MaxLen)}

HumArrays == {Array("float64", xs) : xs \in SeqsUpTo(HumVals, MaxLen)}

(* ---------------- one call, line by line (specification Spec) ---------- *)

Frame ==
    [heap |-> heap, temp_col |-> temp_col, pres_col |-> pres_col,
     humi_col |-> humi_col, rel_humidity |-> rel_humidity, rho |-> rho,
     pc |-> pc, outcome |-> outcome]

Commit(g) ==
    /\ heap' = g.heap
    /\ temp_col' = g.temp_col
    /\ pres_col' = g.pres_col
    /\ humi_col' = g.humi_col
    /\ rel_humidity' = g.rel_humidity
    /\ rho' = g.rho
    /\ pc' = g.pc
    /\ outcome' = g.outcome

NoMemo == [t |-> None, p |-> None, h |-> None, result |-> NoOutcome]

LoopIdle ==
    /\ yr = 1
    /\ lpc = "off"
    /\ files = <<>>
    /\ dataset = <<>>
    /\ df = <<>>
    /\ result_df = <<>>
    /\ csv = <<>>

\* The caller holds its arrays and calls compute_air_density on them.
Init ==
    /\ \E t \in TempArrays, p \in PresArrays, h \in HumArrays \cup {None} :
          /\ heap = IF h = None THEN <<t, p>> ELSE <<t, p, h>>
          /\ caller = [t |-> 1, p |-> 2, h |-> IF h = None THEN 0 ELSE 3]
    /\ temp_col = caller.t
    /\ pres_col = caller.p
    /\ humi_col = caller.h
    /\ rel_humidity = 0
    /\ rho = 0
    /\ pc = "L33"
    /\ outcome = NoOutcome
    /\ trace = <<>>
    /\ memo = NoMemo
    /\ LoopIdle

Step(l, g) ==
    /\ pc = l
    /\ Commit(g)
    /\ trace' = Append(trace, l)
    /\ UNCHANGED <<caller, memo, lvars>>

Line33 == Step("L33", line33(Frame))

Line36 == Step("L36", line36(Frame))

Line40 == Step("L40", line40(Frame))

Line44 == Step("L44", line44(Frame))

Line46 == Step("L46", line46(Frame))

Next == Line33 \/ Line36 \/ Line40 \/ Line44 \/ Line46

Spec == Init /\ [][Next]_vars

(* ------------------------ properties of one call ----------------------- *)

ArgT == heap[caller.t]

ArgP == heap[caller.p]

ArgH == IF caller.h = 0 THEN None ELSE heap[caller.h]

Done == pc \in {"returned", "raised"}

Negative(v) == v.k = "fin" /\ v.b.n = 0 /\ v.a.n < 0

SomeNegative(x) == \E i \in 1..Len(x.data) : Negative(x.data[i])

NegativeInput == SomeNegative(ArgT) \/ SomeNegative(ArgP) \/ SomeNegative(ArgH)

EqualLength ==
    /\ Len(ArgT.data) = Len(ArgP.data)
    /\ caller.h # 0 => Len(ArgH.data) = Len(ArgT.data)

Half == Num(Q(1, 2))

\* the humidity of sample i: the supplied one, or the default 0.5
Phi(i) == IF caller.h = 0 THEN Half ELSE ArgH.data[i]

Ran(l) == \E i \in 1..Len(trace) : trace[i] = l

\* C1: a call with a negative element in temperature, pressure or the
\* supplied humidity ends in the invalid-input exception and yields no
\* density array.
C1_NegativeRaises ==
    (Done /\ NegativeInput) =>
        /\ outcome = [status |-> "Exception", value |-> 0]
        /\ rho = 0

C1_Witness ==
    /\ pc = "raised"
    /\ outcome.status = "Exception"
    /\ SomeNegative(ArgH)
    /\ ~SomeNegative(ArgT)
    /\ ~SomeNegative(ArgP)

\* the density of sample i alone
Single(i) ==
    compute_air_density(Array("float64", <<ArgT.data[i]>>),
                        Array("float64", <<ArgP.data[i]>>),
                        IF caller.h = 0 THEN None
                        ELSE Array("float64", <<ArgH.data[i]>>))

\* C2: a valid call (equal lengths, nothing negative) returns an array of
\* the inputs' length whose element i is the density of sample i alone:
\* nothing dropped, duplicated or reordered.
C2_AlignedResult ==
    (Done /\ EqualLength /\ ~NegativeInput) =>
        /\ outcome.status = "ok"
        /\ Len(heap[outcome.value].data) = Len(ArgT.data)
        /\ Len(heap[outcome.value].data) = Len(ArgP.data)
        /\ \A i \in 1..Len(ArgT.data) :
              heap[outcome.value].data[i] = Single(i).value.data[1]

C2_Witness ==
    /\ pc = "returned"
    /\ EqualLength
    /\ Len(ArgT.data) = 2
    /\ heap[outcome.value].data[1] # heap[outcome.value].data[2]

\* C3: a call without humidity ends as the call with a humidity array of
\* 0.5 of the temperature's length: the same array, or the same error.
C3_DefaultIsHalf ==
    (Done /\ caller.h = 0) =>
        Result(Frame) =
            compute_air_density(ArgT, ArgP,
                Array("float64", [i \in 1..Len(ArgT.data) |-> Half]))

C3_Witness ==
    /\ pc = "returned"
    /\ caller.h = 0
    /\ Len(ArgT.data) = 2
    /\ heap[outcome.value].data[1].b.n # 0

\* the formula of the claim: (1/T) * (P/287.05
\*     - phi * 0.0000205 * exp(0.0631846 * T) * (1/287.05 - 1/461.5))
Formula(T, P, phi) ==
    LET one == Num(ROne)
        Rd  == Num(Q(28705, 100))
        Rv  == Num(Q(4615, 10))
        svf == FMul(Num(Q(205, 10000000)), FExp(FMul(Num(Q(631846, 10000000)), T)))
    IN  FMul(FDiv(one, T),
             FSub(FDiv(P, Rd),
                  FMul(FMul(phi, svf), FSub(FDiv(one, Rd), FDiv(one, Rv)))))

\* P / (287.05 * T)
DryFormula(T, P) == FDiv(P, FMul(Num(Q(28705, 100)), T))

\* C4: every sample of a valid call has the density of the formula, which
\* for phi = 0 is P / (287.05 * T).
C4_Formula ==
    (Done /\ EqualLength /\ ~NegativeInput) =>
        /\ outcome.status = "ok"
        /\ \A i \in 1..Len(ArgT.data) :
              /\ heap[outcome.value].data[i] =
                    Formula(ArgT.data[i], ArgP.data[i], Phi(i))
              /\ Phi(i) = Num(RZero) =>
                    heap[outcome.value].data[i] =
                        DryFormula(ArgT.data[i], ArgP.data[i])

C4_Witness ==
    /\ pc = "returned"
    /\ caller.h # 0
    /\ EqualLength
    /\ \E i \in 1..Len(ArgT.data) :
          /\ Phi(i) = Num(RZero)
          /\ heap[outcome.value].data[i].k = "fin"
    /\ \E i \in 1..Len(ArgT.data) :
          /\ Phi(i) # Num(RZero)
          /\ heap[outcome.value].data[i].k = "fin"

\* C5: the negative-value check of the three arrays (humidity or its
\* default already bound) runs before the float coercion and before any
\* density is computed; when it fails neither of them runs.
C5_ValidateFirst ==
    /\ \A i \in 1..Len(trace) :
          trace[i] \in {"L40", "L44"} =>
              \E j \in 1..(i - 1) : trace[j] = "L36"
    /\ \A i \in 1..Len(trace) :
          trace[i] = "L36" => \E j \in 1..(i - 1) : trace[j] = "L33"
    /\ (temp_col # caller.t \/ pres_col # caller.p \/ rho # 0) =>
          Ran("L36") /\ rel_humidity # 0
    /\ (Ran("L36") /\ (NegativeInput \/ SomeNegative(heap[rel_humidity]))) =>
          /\ ~Ran("L40")
          /\ ~Ran("L44")
          /\ temp_col = caller.t
          /\ pres_col = caller.p
          /\ rho = 0
          /\ pc = "raised"

C5_Witness ==
    /\ pc = "raised"
    /\ outcome.status = "Exception"
    /\ trace = <<"L33", "L36">>
    /\ temp_col = caller.t
    /\ rho = 0

NonNegative(x) == \A i \in 1..Len(x.data) : ~Negative(x.data[i])

\* C6: on equal-length inputs the call fails only when an element is
\* negative, and then with the invalid-input exception; with every element
\* >= 0 (a temperature of 0, a humidity above 1 included) it returns.
C6_OnlyNegativeFails ==
    (Done /\ EqualLength) =>
        /\ (NonNegative(ArgT) /\ NonNegative(ArgP) /\ NonNegative(ArgH)) =>
              /\ pc = "returned"
              /\ outcome.status = "ok"
              /\ outcome.value = rho
              /\ rho # 0
        /\ outcome.status \in {"ok", "Exception"}
        /\ outcome.status = "Exception" => NegativeInput

C6_Witness ==
    /\ pc = "returned"
    /\ outcome.status = "ok"
    /\ EqualLength
    /\ \E i \in 1..Len(ArgT.data) :
          /\ ArgT.data[i] = Num(RZero)
          /\ heap[outcome.value].data[i].k \in {"inf", "ninf", "nan"}
    /\ \E i \in 1..Len(ArgH.data) : ArgH.data[i] = Num(Q(3, 2))

\* C7: no step of the call changes the caller's names, the arrays they are
\* bound to, or any state outside the call.
C7_NoSideEffect ==
    [][/\ caller' = caller
       /\ heap'[caller.t] = heap[caller.t]
       /\ heap'[caller.p] = heap[caller.p]
       /\ caller.h # 0 => heap'[caller.h] = heap[caller.h]
       /\ UNCHANGED <<memo, lvars>>]_vars

C7_Witness ==
    /\ pc = "returned"
    /\ temp_col # caller.t
    /\ pres_col # caller.p
    /\ heap[caller.t].dtype = "int64"
    /\ heap[temp_col].dtype = "float64"
    /\ heap[caller.p].dtype = "int64"

(* ------------- repeated calls (specification SpecDet) ------------------ *)

\* The calls tried: a temperature array, a pressure array of its length or
\* of length 1, and no humidity or a humidity array of either length.
DetTempArrays ==
    {Array("float64", xs) : xs \in SeqsUpTo({Num(Q(-1, 1)), Num(Q(2, 1))}, MaxLen)}

DetPresArrays(t) == {np_repeat(Num(Q(3, 1)), n) : n \in {shape0(t), 1}}

DetHumArrays(t) == {None} \cup {np_repeat(Half, n) : n \in {shape0(t), 1}}

\* No call made yet.
InitDet ==
    /\ heap = <<>>
    /\ caller = [t |-> 0, p |-> 0, h |-> 0]
    /\ temp_col = 0
    /\ pres_col = 0
    /\ humi_col = 0
    /\ rel_humidity = 0
    /\ rho = 0
    /\ pc = "idle"
    /\ outcome = NoOutcome
    /\ trace = <<>>
    /\ memo = NoMemo
    /\ LoopIdle

\* A whole call of compute_air_density(t, p, h): lines 33 to 46, or to the
\* raise.  The objects of the previous call are garbage by then.
Call(t, p, h) ==
    /\ LET g == Run(IF h = None THEN CallFrame(<<t, p>>, 1, 2, 0)
                                ELSE CallFrame(<<t, p, h>>, 1, 2, 3))
       IN  Commit(g)
    /\ caller' = [t |-> 1, p |-> 2, h |-> IF h = None THEN 0 ELSE 3]
    /\ UNCHANGED <<trace, memo, lvars>>

\* The caller keeps the inputs and the result of the call just made and goes
\* on; the finished call's objects stay where they are until the next call.
Remember ==
    /\ Done
    /\ memo' = [t |-> ArgT, p |-> ArgP, h |-> ArgH, result |-> Result(Frame)]
    /\ pc' = "idle"
    /\ UNCHANGED <<heap, caller, temp_col, pres_col, humi_col, rel_humidity, rho,
                   outcome, trace, lvars>>

NextDet ==
    \/ \E t \in DetTempArrays :
          \E p \in DetPresArrays(t), h \in DetHumArrays(t) : Call(t, p, h)
    \/ Remember

SpecDet == InitDet /\ [][NextDet]_vars

NumBlocks == 2

MaxRows == 2

LoopTempVals == {Num(Q(-1, 1)), Num(Q(2, 1)), Num(Q(4, 1))}

LoopPresVals == {Num(Q(3, 1))}

\* The files c.retrieve can leave on disk for block y: hourly samples on the
\* block's own time axis.
BlockFiles(y) ==
    UNION {{[time |-> [i \in 1..Len(ts) |-> (y - 1) * (MaxRows + 1) + i],
             t2m |-> ts, sp |-> ps] : ps \in [1..Len(ts) -> LoopPresVals]} :
           ts \in SeqsUpTo(LoopTempVals, MaxRows)}

\* line 66: pd.DataFrame()
EmptyFrame == <<>>

\* lines 90-117: the block's DataFrame
frame_of(file) ==
    [datetime |-> file.time, t_2m |-> file.t2m, surf_pres |-> file.sp]

\* line 120: df['dens_100m'] = column
with_density(d, column) ==
    [datetime |-> d.datetime, t_2m |-> d.t_2m, surf_pres |-> d.surf_pres,
     dens_100m |-> column]

\* pd.concat([df, result_df]): the new block first
concat_prepend(a, b) ==
    IF a = EmptyFrame THEN b
    ELSE [c \in DOMAIN a |-> b[c] \o a[c]]

\* line 123: pd.concat([a, b], axis=0, ignore_index=True)
concat(a, b) ==
    IF a = EmptyFrame THEN b
    ELSE [c \in DOMAIN a |-> a[c] \o b[c]]

\* The script starts: result_df is empty, the first block is next.
InitLoop ==
    /\ heap = <<>>
    /\ caller = [t |-> 0, p |-> 0, h |-> 0]
    /\ temp_col = 0
    /\ pres_col = 0
    /\ humi_col = 0
    /\ rel_humidity = 0
    /\ rho = 0
    /\ pc = "idle"
    /\ outcome = NoOutcome
    /\ trace = <<>>
    /\ memo = NoMemo
    /\ yr = 1
    /\ lpc = "retrieve"
    /\ files = <<>>
    /\ dataset = <<>>
    /\ df = EmptyFrame
    /\ result_df = EmptyFrame
    /\ csv = <<>>

\* lines 70-86: the block's file is downloaded
Retrieve ==
    /\ lpc = "retrieve"
    /\ \E file \in BlockFiles(yr) : files' = Append(files, file)
    /\ lpc' = "open"
    /\ UNCHANGED <<fvars, memo, yr, dataset, df, result_df, csv>>

\* lines 70-86: the request fails and the script ends with the exception
RetrieveFails ==
    /\ lpc = "retrieve"
    /\ lpc' = "failed"
    /\ UNCHANGED <<fvars, memo, yr, files, dataset, df, result_df, csv>>

\* line 89: the file cannot be opened and the script ends with the exception
OpenFails ==
    /\ lpc = "open"
    /\ lpc' = "failed"
    /\ UNCHANGED <<fvars, memo, yr, files, dataset, df, result_df, csv>>

\* line 89
OpenDataset ==
    /\ lpc = "open"
    /\ dataset' = Append(dataset, "open")
    /\ lpc' = "frame"
    /\ UNCHANGED <<fvars, memo, yr, files, df, result_df, csv>>

\* lines 90-117
BuildFrame ==
    /\ lpc = "frame"
    /\ df' = frame_of(files[yr])
    /\ lpc' = "density"
    /\ UNCHANGED <<fvars, memo, yr, files, dataset, result_df, csv>>

\* lines 90-107: a variable is missing from the file and the script ends
\* with the exception
BuildFrameFails ==
    /\ lpc = "frame"
    /\ lpc' = "failed"
    /\ UNCHANGED <<fvars, memo, yr, files, dataset, df, result_df, csv>>

\* line 120: the density column is added, or the exception ends the script
AddDensity ==
    /\ lpc = "density"
    /\ LET r == compute_air_density(Array("float32", df.t_2m),
                                    Array("float32", df.surf_pres), None)
       IN  IF r.status = "ok"
           THEN /\ df' = with_density(df, r.value.data)
                /\ lpc' = "concat"
           ELSE /\ df' = df
                /\ lpc' = "failed"
    /\ UNCHANGED <<fvars, memo, yr, files, dataset, result_df, csv>>

\* line 123
Concat ==
    /\ lpc = "concat"
    /\ result_df' = concat(result_df, df)
    /\ lpc' = "close"
    /\ UNCHANGED <<fvars, memo, yr, files, dataset, df, csv>>

\* lines 124-126 with to_csv indented into the loop
Close_and_write ==
    /\ lpc = "close"
    /\ dataset' = [dataset EXCEPT ![yr] = "closed"]
    /\ csv' = Append(csv, result_df)
    /\ yr' = yr + 1
    /\ lpc' = IF yr < NumBlocks THEN "retrieve" ELSE "to_csv"
    /\ UNCHANGED <<fvars, memo, files, df, result_df>>

\* lines 124-126, and line 69: the next block, or the end of the loop
Close ==
    /\ lpc = "close"
    /\ dataset' = [dataset EXCEPT ![yr] = "closed"]
    /\ yr' = yr + 1
    /\ lpc' = IF yr < NumBlocks THEN "retrieve" ELSE "to_csv"
    /\ UNCHANGED <<fvars, memo, files, df, result_df, csv>>

\* line 129
WriteCsv ==
    /\ lpc = "to_csv"
    /\ csv' = Append(csv, result_df)
    /\ lpc' = "exit"
    /\ UNCHANGED <<fvars, memo, yr, files, dataset, df, result_df>>

NextLoop ==
    \/ Retrieve
    \/ RetrieveFails
    \/ OpenFails
    \/ OpenDataset
    \/ BuildFrameFails
    \/ BuildFrame
    \/ AddDensity
    \/ Concat
    \/ Close
    \/ WriteCsv

SpecLoop == InitLoop /\ [][NextLoop]_vars

\* the samples of the first k files, in block order
RECURSIVE FlatTime(_)
FlatTime(k) == IF k = 0 THEN <<>> ELSE FlatTime(k - 1) \o files[k].time

RECURSIVE FlatTemp(_)
FlatTemp(k) == IF k = 0 THEN <<>> ELSE FlatTemp(k - 1) \o files[k].t2m

RECURSIVE FlatPres(_)
FlatPres(k) == IF k = 0 THEN <<>> ELSE FlatPres(k - 1) \o files[k].sp

RECURSIVE RowCount(_)
RowCount(k) == IF k = 0 THEN 0 ELSE RowCount(k - 1) + Len(files[k].time)

\* the table holds exactly the first k blocks, each row with its density
HoldsBlocks(table, k) ==
    IF k = 0 THEN table = EmptyFrame
    ELSE /\ DOMAIN table = {"datetime", "t_2m", "surf_pres", "dens_100m"}
         /\ table.datetime = FlatTime(k)
         /\ table.t_2m = FlatTemp(k)
         /\ table.surf_pres = FlatPres(k)
         /\ Len(table.dens_100m) = RowCount(k)
         /\ \A i \in 1..RowCount(k) :
               table.dens_100m[i] = Formula(FlatTemp(k)[i], FlatPres(k)[i], Half)

\* the blocks appended so far
Appended == IF lpc \in {"retrieve", "open", "frame", "density", "concat", "failed"}
            THEN yr - 1 ELSE IF lpc = "close" THEN yr ELSE NumBlocks

\* C9: after each block the accumulated table is the rows of the blocks
\* processed so far, in block order and row order, each row with the
\* density of its own temperature and pressure at humidity 0.5; its row
\* count is the sum of the blocks' row counts.
C9_Accumulated == HoldsBlocks(result_df, Appended)

C9_Witness ==
    /\ lpc = "to_csv"
    /\ Len(files[1].time) = 2
    /\ Len(files[2].time) = 1
    /\ files[1].t2m[1] # files[1].t2m[2]
    /\ files[2].t2m[1] # files[1].t2m[2]
    /\ Len(result_df.dens_100m) = 3

\* C10: the CSV is written once, after every block was retrieved, given its
\* density, appended and closed; a failed block leaves no CSV and its
\* dataset, if opened, open; a block's dataset is closed before the next
\* retrieval starts.
C10_WriteOnceAtEnd ==
    /\ Len(csv) <= 1
    /\ lpc = "exit" <=> Len(csv) = 1
    /\ Len(csv) = 1 =>
          /\ Len(files) = NumBlocks
          /\ Len(dataset) = NumBlocks
          /\ \A k \in 1..NumBlocks : dataset[k] = "closed"
          /\ HoldsBlocks(csv[1], NumBlocks)
    /\ lpc = "failed" =>
          /\ csv = <<>>
          /\ Len(dataset) = yr => dataset[yr] = "open"
    /\ \A k \in 1..Len(dataset) : k < yr => dataset[k] = "closed"
    /\ lpc \in {"retrieve", "open"} => \A k \in 1..Len(dataset) : dataset[k] = "closed"

\* the second block fails in compute_air_density with its dataset open
C10_Witness ==
    /\ lpc = "failed"
    /\ yr = 2
    /\ Len(dataset) = 2
    /\ dataset = <<"closed", "open">>
    /\ \E i \in 1..Len(df.t_2m) : Negative(df.t_2m[i])
    /\ csv = <<>>

====
